---- MODULE Spec2Model ----
(***************************************************************************)
(* Model of app/main.py: the VedAstro wrapper service.                     *)
(*   - safe_call      : probes name variants of a callable on Calculate    *)
(*   - get_panchang   : GET /panchang, assembles the PanchangResult        *)
(*   - write_to_sheet : best-effort append of the result to a spreadsheet  *)
(* Two specifications: Spec runs one GET /panchang request step by step;   *)
(* ProbeSpec applies safe_call to one name on one facility namespace.      *)
(***************************************************************************)
EXTENDS Integers, Sequences, FiniteSets, TLC

VARIABLES
    VEDASTRO_AVAILABLE,          \* main.py:26/28, fixed at import time
    GSHEET_ID,                   \* main.py:20
    GOOGLE_SERVICE_ACCOUNT_JSON, \* main.py:21
    pc,          \* position inside get_panchang
    req,         \* query parameters as sent by the client
    result,      \* the local dict `result`
    status,      \* HTTP status of the response, 0 while running
    geoCalls,    \* GeoLocation(...) calls: arguments and whether it raised
    timeCalls,   \* Time(...) calls: arguments and whether it raised
    calls,       \* safe_call invocations of the latest quantity step
    used,        \* the object the latest quantity step ended up with
    attempted,   \* quantities whose try block was entered
    sheetCalls,  \* calls made to the spreadsheet backend
    sheetRows,   \* rows inserted/appended to the worksheet
    faults,      \* number of quantity steps that left the nominal path
    probe        \* state of an isolated safe_call (ProbeSpec)

vars == <<VEDASTRO_AVAILABLE, GSHEET_ID, GOOGLE_SERVICE_ACCOUNT_JSON, pc, req,
          result, status, geoCalls, timeCalls, calls, used, attempted,
          sheetCalls, sheetRows, faults, probe>>

None == "None"   \* Python's None, where a string or None is expected

\* Python's None, where an object of the facility or None is expected
NoObject == [truth |-> "falsy", name |-> "absent", str |-> "None"]

(***************************************************************************)
(* Strings whose characters matter are sequences of one-character strings. *)
(***************************************************************************)
UpperChars == <<"A","B","C","D","E","F","G","H","I","J","K","L","M",
                "N","O","P","Q","R","S","T","U","V","W","X","Y","Z">>
LowerChars == <<"a","b","c","d","e","f","g","h","i","j","k","l","m",
                "n","o","p","q","r","s","t","u","v","w","x","y","z">>

LowerChar(c) ==
    IF \E i \in DOMAIN UpperChars : UpperChars[i] = c
    THEN LowerChars[CHOOSE i \in DOMAIN UpperChars : UpperChars[i] = c]
    ELSE c

UpperChar(c) ==
    IF \E i \in DOMAIN LowerChars : LowerChars[i] = c
    THEN UpperChars[CHOOSE i \in DOMAIN LowerChars : LowerChars[i] = c]
    ELSE c

\* str.lower()
Lower(s) == [i \in DOMAIN s |-> LowerChar(s[i])]
\* str.upper()
Upper(s) == [i \in DOMAIN s |-> UpperChar(s[i])]
\* str.capitalize(): first character upper-cased, the rest lower-cased
Capitalize(s) == [i \in DOMAIN s |-> IF i = 1 THEN UpperChar(s[i]) ELSE LowerChar(s[i])]

\* getattr(Calculate, n, None): Calc maps attribute names to "callable" or "data"
GetAttr(Calc, n) == IF n \in DOMAIN Calc THEN Calc[n] ELSE None

\* callable(fn)
IsCallable(fn) == fn = "callable"

\* (variant: the upper-case spelling is tried before the lower-case one)
AlternativesUpperFirst(name) ==
    <<Upper(name), Lower(name), Capitalize(name),
      <<"A","l","l">> \o name, <<"G","e","t">> \o name>>

\* the tuple iterated by the for loop of safe_call (main.py:76)
Alternatives(name) ==
    <<Lower(name), Upper(name), Capitalize(name),
      <<"A","l","l">> \o name, <<"G","e","t">> \o name>>

\* the for loop of safe_call from position i on: the first alternative that
\* is callable is invoked, None when the loop runs out
RECURSIVE TryAlternatives(_, _, _)
TryAlternatives(Calc, alts, i) ==
    IF i > Len(alts) THEN [kind |-> "none"]
    ELSE IF IsCallable(GetAttr(Calc, alts[i]))
         THEN [kind |-> "invoke", fn |-> alts[i]]
         ELSE TryAlternatives(Calc, alts, i + 1)

\* safe_call(name, *args) up to the invocation: which callable it invokes
\* ("invoke"), or that it returns None without invoking ("none"), or that it
\* raises RuntimeError ("unavailable")
SafeCall(available, Calc, name) ==
    IF ~available THEN [kind |-> "unavailable"]
    ELSE IF IsCallable(GetAttr(Calc, name))
         THEN [kind |-> "invoke", fn |-> name]
         ELSE TryAlternatives(Calc, Alternatives(name), 1)


(***************************************************************************)
(* The names get_panchang probes (main.py:140-185).                        *)
(***************************************************************************)
N_TithiAtTime == <<"T","i","t","h","i","A","t","T","i","m","e">>
N_AllTithiData == <<"A","l","l","T","i","t","h","i","D","a","t","a">>
N_NakshatraAtTime == <<"N","a","k","s","h","a","t","r","a","A","t","T","i","m","e">>
N_AllNakshatraData == <<"A","l","l","N","a","k","s","h","a","t","r","a","D","a","t","a">>
N_YogaAtTime == <<"Y","o","g","a","A","t","T","i","m","e">>
N_AllYogaData == <<"A","l","l","Y","o","g","a","D","a","t","a">>
N_KaranAtTime == <<"K","a","r","a","n","A","t","T","i","m","e">>
N_AllKaranData == <<"A","l","l","K","a","r","a","n","D","a","t","a">>
N_RahuKaalAtDate == <<"R","a","h","u","K","a","a","l","A","t","D","a","t","e">>
N_GetRahuKaal == <<"G","e","t","R","a","h","u","K","a","a","l">>
N_RahuKaal == <<"R","a","h","u","K","a","a","l">>
N_GulikaAtDate == <<"G","u","l","i","k","a","A","t","D","a","t","e">>
N_GetGulika == <<"G","e","t","G","u","l","i","k","a">>
N_Gulika == <<"G","u","l","i","k","a">>
N_AbhijitAtDate == <<"A","b","h","i","j","i","t","A","t","D","a","t","e">>
N_GetAbhijit == <<"G","e","t","A","b","h","i","j","i","t">>

\* the seven quantities, by the key of their top-level field, in program order
Quantities == <<"tithi", "nakshatra", "yoga", "karan", "rahu_kaal", "gulika_kaal", "abhijit">>
QuantitySet == {Quantities[i] : i \in DOMAIN Quantities}

\* per quantity: the safe_call invocations of its try block in order (name and
\* number of positional arguments), how the results are chained ("isnone":
\* `if x is None`, "or": Python's `or`), how the label is taken ("name":
\* getattr(obj, "name", str(obj)), "str": str(obj)) and its two raw keys
QuantityTable ==
    [tithi       |-> [probes |-> <<[name |-> N_TithiAtTime, nargs |-> 1],
                                   [name |-> N_AllTithiData, nargs |-> 1]>>,
                      chain |-> "isnone", label |-> "name", objkey |-> "tithi_obj", errkey |-> "tithi_error"],
     nakshatra   |-> [probes |-> <<[name |-> N_NakshatraAtTime, nargs |-> 1],
                                   [name |-> N_AllNakshatraData, nargs |-> 1]>>,
                      chain |-> "or", label |-> "name", objkey |-> "nakshatra_obj", errkey |-> "nakshatra_error"],
     yoga        |-> [probes |-> <<[name |-> N_YogaAtTime, nargs |-> 1],
                                   [name |-> N_AllYogaData, nargs |-> 1]>>,
                      chain |-> "or", label |-> "name", objkey |-> "yoga_obj", errkey |-> "yoga_error"],
     karan       |-> [probes |-> <<[name |-> N_KaranAtTime, nargs |-> 1],
                                   [name |-> N_AllKaranData, nargs |-> 1]>>,
                      chain |-> "or", label |-> "name", objkey |-> "karan_obj", errkey |-> "karan_error"],
     rahu_kaal   |-> [probes |-> <<[name |-> N_RahuKaalAtDate, nargs |-> 1],
                                   [name |-> N_GetRahuKaal, nargs |-> 1],
                                   [name |-> N_RahuKaal, nargs |-> 0]>>,
                      chain |-> "or", label |-> "str", objkey |-> "rahu_obj", errkey |-> "rahu_error"],
     gulika_kaal |-> [probes |-> <<[name |-> N_GulikaAtDate, nargs |-> 1],
                                   [name |-> N_GetGulika, nargs |-> 1],
                                   [name |-> N_Gulika, nargs |-> 0]>>,
                      chain |-> "or", label |-> "str", objkey |-> "gulika_obj", errkey |-> "gulika_error"],
     abhijit     |-> [probes |-> <<[name |-> N_AbhijitAtDate, nargs |-> 1],
                                   [name |-> N_GetAbhijit, nargs |-> 1]>>,
                      chain |-> "or", label |-> "str", objkey |-> "abhijit_obj", errkey |-> "abhijit_error"]]

ObjKey(q) == QuantityTable[q].objkey
ErrKey(q) == QuantityTable[q].errkey

(***************************************************************************)
(* What the external facility can hand back.  An object is described by    *)
(* what the handler does with it: its truth value (bool(obj) may raise),   *)
(* its `name` attribute (absent, present, or a getter that raises) and     *)
(* str(obj), which may raise on the first or on the second call.           *)
(***************************************************************************)
Objects ==
    {[truth |-> "truthy", name |-> n, str |-> s] :
        n \in {"absent", "present", "raises"}, s \in {"ok", "first", "second"}}
    \cup {[truth |-> "falsy", name |-> "absent", str |-> s] : s \in {"ok", "first"}}
    \cup {[truth |-> "raises", name |-> "absent", str |-> "ok"]}

\* what one invocation of a resolved callable does
Behaviours ==
    {[kind |-> "raise"]} \cup {[kind |-> "return", value |-> v] : v \in {NoObject} \cup Objects}

NominalObject == [truth |-> "truthy", name |-> "present", str |-> "ok"]
NominalBehaviour == [kind |-> "return", value |-> NominalObject]

\* bool(v)
Truth(v) == v.truth

\* how a returned value is entered in the call log
Classify(v) == IF v = NoObject THEN "None" ELSE v.truth


(***************************************************************************)
(* One quantity's try block (main.py:139-189), as the set of its possible  *)
(* runs against a facility namespace Calc whose callables behave as any    *)
(* member of Behs.                                                         *)
(***************************************************************************)

\* one safe_call(name, ...) of the handler: the log entry and what came back
\* (raised when safe_call or the callable it invoked raised)
CallOutcomes(Calc, Behs, p) ==
    LET r == SafeCall(VEDASTRO_AVAILABLE, Calc, p.name) IN
    IF r.kind = "unavailable"
    THEN {[entry |-> [name |-> p.name, nargs |-> p.nargs, ret |-> "raise"],
           raised |-> TRUE, out |-> NoObject]}
    ELSE IF r.kind = "none"
    THEN {[entry |-> [name |-> p.name, nargs |-> p.nargs, ret |-> "None"],
           raised |-> FALSE, out |-> NoObject]}
    ELSE {IF b.kind = "raise"
          THEN [entry |-> [name |-> p.name, nargs |-> p.nargs, ret |-> "raise"],
                raised |-> TRUE, out |-> NoObject]
          ELSE [entry |-> [name |-> p.name, nargs |-> p.nargs, ret |-> Classify(b.value)],
                raised |-> FALSE, out |-> b.value]
          : b \in Behs}

\* (variant: every name of the chain is called whatever came back)
ChainContinuesAlways(style, v) == TRUE

\* does the chain go on to the next safe_call after value v came back?
\* "isnone": `if tithi_obj is None` (main.py:141); "or": v is falsy
ChainContinues(style, v) ==
    IF style = "isnone" THEN v = NoObject ELSE Truth(v) = "falsy"

\* the chained safe_call expressions of a try block from probe i on.  A run
\* is the log of calls, the error message if the chain raised, the resulting
\* object and the index of the call that produced it.
RECURSIVE Chain(_, _, _, _, _)
Chain(Calc, Behs, probes, style, i) ==
    UNION {
        IF c.raised
        THEN {[calls |-> <<c.entry>>, err |-> "str(e)", obj |-> NoObject, used |-> 0]}
        ELSE IF i = Len(probes)
        THEN {[calls |-> <<c.entry>>, err |-> None, obj |-> c.out, used |-> i]}
        ELSE IF style = "or" /\ Truth(c.out) = "raises"
        THEN {[calls |-> <<c.entry>>, err |-> "str(e)", obj |-> NoObject, used |-> 0]}
        ELSE IF ChainContinues(style, c.out)
        THEN {[r EXCEPT !.calls = <<c.entry>> \o r.calls] :
                 r \in Chain(Calc, Behs, probes, style, i + 1)}
        ELSE {[calls |-> <<c.entry>>, err |-> None, obj |-> c.out, used |-> i]}
        : c \in CallOutcomes(Calc, Behs, probes[i])}

\* str(obj) at its k-th evaluation in the try block: "raise" or the text
Str(obj, k) ==
    IF obj = NoObject THEN "None"
    ELSE IF (k = 1 /\ obj.str = "first") \/ (k = 2 /\ obj.str = "second") THEN "raise"
    ELSE "str(obj)"

\* the right-hand side of the field assignment (main.py:143, 172):
\*   getattr(obj, "name", str(obj)) if obj else None   /   str(obj) if obj else None
\* Python evaluates the condition, then str(obj) (an argument of getattr), then
\* getattr.  [err] when it raises, else [val] and the number of str calls made.
Label(style, obj) ==
    IF Truth(obj) = "raises" THEN [err |-> "str(e)"]
    ELSE IF Truth(obj) = "falsy" THEN [err |-> None, val |-> None, strs |-> 0]
    ELSE IF Str(obj, 1) = "raise" THEN [err |-> "str(e)"]
    ELSE IF style = "str" THEN [err |-> None, val |-> Str(obj, 1), strs |-> 1]
    ELSE IF obj.name = "raises" THEN [err |-> "str(e)"]
    ELSE IF obj.name = "present" THEN [err |-> None, val |-> "obj.name", strs |-> 1]
    ELSE [err |-> None, val |-> Str(obj, 1), strs |-> 1]

\* the whole try/except block of quantity q after its chain ran as r: the
\* value the field ends with ("unset" when it is never assigned) and the one
\* raw entry the block adds
Finish(q, r) ==
    LET l == Label(QuantityTable[q].label, r.obj) IN
    IF r.err # None
    THEN [field |-> "unset", key |-> ErrKey(q), val |-> r.err]
    ELSE IF l.err # None
    THEN [field |-> "unset", key |-> ErrKey(q), val |-> l.err]
    ELSE IF Str(r.obj, l.strs + 1) = "raise"
    THEN [field |-> l.val, key |-> ErrKey(q), val |-> "str(e)"]
    ELSE [field |-> l.val, key |-> ObjKey(q), val |-> Str(r.obj, l.strs + 1)]

\* a namespace in which exactly the names of S are callable attributes
CallableOnly(S) == [n \in S |-> "callable"]

\* the facility namespaces a quantity step is run against: every subset of the
\* probed names as written, and a primary name that is a plain (non-callable)
\* attribute beside its callable Get-spelling
StepFacilities(q) ==
    LET probes == QuantityTable[q].probes
        names == {probes[i].name : i \in DOMAIN probes}
    IN  {CallableOnly(S) : S \in SUBSET names}
        \cup {(probes[1].name :> "data") @@ CallableOnly({Alternatives(probes[1].name)[5]})}

NominalFacility(q) == CallableOnly({QuantityTable[q].probes[1].name})


(***************************************************************************)
(* GET /panchang                                                           *)
(***************************************************************************)
MaxFaults == 1      \* quantity steps per request that may leave the nominal run

NoParam == "<omitted>"          \* a query parameter the client did not send
Today == "date.today().isoformat()"

\* (variant: the city parameter defaults to None)
QueryDefaultsNoCity == [date |-> None, lat |-> "26.9124", lon |-> "75.7873", city |-> None]

\* Query(...) defaults of get_panchang's parameters (main.py:88-92)
QueryDefaults == [date |-> None, lat |-> "26.9124", lon |-> "75.7873", city |-> "Jaipur"]

\* the requests considered: no query parameter at all, and all of them
Requests ==
    {[date |-> NoParam, city |-> NoParam, lat |-> NoParam, lon |-> NoParam],
     [date |-> "2025-12-02", city |-> "Delhi", lat |-> "28.6", lon |-> "77.2"]}

\* the value the framework binds to parameter k
Param(r, k) == IF r[k] = NoParam THEN QueryDefaults[k] ELSE r[k]

Last(seq) == seq[Len(seq)]

\* Python falsiness of an optional string
Falsy(v) == v = None \/ v = ""

\* (variant: the assignment rebinds raw to a one-entry dict)
SetItemReplace(d, k, v) == (k :> v)

\* result["raw"][k] = v
SetItem(d, k, v) == (k :> v) @@ d

\* main.py:99-115
BuildShell ==
    /\ pc = "idle"
    /\ \E r \in Requests :
        /\ req' = r
        /\ result' =
            [date |-> IF Falsy(Param(r, "date")) THEN Today ELSE Param(r, "date"),
             city |-> Param(r, "city"),
             latitude |-> Param(r, "lat"),
             longitude |-> Param(r, "lon"),
             tithi |-> None, nakshatra |-> None, yoga |-> None, karan |-> None,
             rahu_kaal |-> None, gulika_kaal |-> None, abhijit |-> None,
             raw |-> <<>>]
    /\ pc' = "facility"
    /\ UNCHANGED <<VEDASTRO_AVAILABLE, GSHEET_ID, GOOGLE_SERVICE_ACCOUNT_JSON, status,
                   geoCalls, timeCalls, calls, used, attempted, sheetCalls, sheetRows,
                   faults, probe>>

\* (variant: the unavailability branch lacks its return statement)
FacilityCheckFallThrough ==
    /\ pc = "facility"
    /\ result' = IF ~VEDASTRO_AVAILABLE
                 THEN [result EXCEPT !.raw =
                         SetItem(@, "error", "vedastro not installed on server: <import error>")]
                 ELSE result
    /\ pc' = "geo"
    /\ UNCHANGED <<VEDASTRO_AVAILABLE, GSHEET_ID, GOOGLE_SERVICE_ACCOUNT_JSON, req, status,
                   geoCalls, timeCalls, calls, used, attempted, sheetCalls, sheetRows,
                   faults, probe>>

\* main.py:117-120
FacilityCheck ==
    /\ pc = "facility"
    /\ IF ~VEDASTRO_AVAILABLE
       THEN /\ result' = [result EXCEPT !.raw =
                            SetItem(@, "error", "vedastro not installed on server: <import error>")]
            /\ status' = 200
            /\ pc' = "done"
       ELSE /\ pc' = "geo"
            /\ UNCHANGED <<result, status>>
    /\ UNCHANGED <<VEDASTRO_AVAILABLE, GSHEET_ID, GOOGLE_SERVICE_ACCOUNT_JSON, req,
                   geoCalls, timeCalls, calls, used, attempted, sheetCalls, sheetRows,
                   faults, probe>>

\* (variant: latitude before longitude at the first attempt)
GeoArgsLatFirst(res) ==
    <<  <<res.city, res.latitude, res.longitude>>,
        <<res.city, res.longitude, res.latitude>>  >>

\* the argument tuples of the two GeoLocation(...) attempts (main.py:125, 127)
GeoArgs(res) ==
    <<  <<res.city, res.longitude, res.latitude>>,
        <<res.city, res.latitude, res.longitude>>  >>

\* main.py:124-127; a second failure leaves through the outer except (200-202)
ConstructGeo ==
    /\ pc = "geo"
    /\ \E first \in {"ok", "raise"} :
        IF first = "ok"
        THEN /\ geoCalls' = <<[args |-> GeoArgs(result)[1], outcome |-> "ok"]>>
             /\ pc' = "time"
             /\ status' = status
        ELSE \E second \in {"ok", "raise"} :
             /\ geoCalls' = <<[args |-> GeoArgs(result)[1], outcome |-> "raise"],
                              [args |-> GeoArgs(result)[2], outcome |-> second]>>
             /\ pc' = IF second = "ok" THEN "time" ELSE "done"
             /\ status' = IF second = "ok" THEN status ELSE 500
    /\ UNCHANGED <<VEDASTRO_AVAILABLE, GSHEET_ID, GOOGLE_SERVICE_ACCOUNT_JSON, req,
                   result, timeCalls, calls, used, attempted, sheetCalls, sheetRows,
                   faults, probe>>

\* the arguments of the two Time(...) attempts (main.py:130-136): the ISO
\* date, then the string f"00:00 {date} +05:30", each with the location handle
TimeArgs(res) ==
    <<  <<"iso", <<res.date>>, Last(geoCalls).args>>,
        <<"fallback", <<"00:00 ", res.date, " +05:30">>, Last(geoCalls).args>>  >>

\* main.py:131-136; a second failure leaves through the outer except (200-202)
ConstructTime ==
    /\ pc = "time"
    /\ \E first \in {"ok", "raise"} :
        IF first = "ok"
        THEN /\ timeCalls' = <<[args |-> TimeArgs(result)[1], outcome |-> "ok"]>>
             /\ pc' = "tithi"
             /\ status' = status
        ELSE \E second \in {"ok", "raise"} :
             /\ timeCalls' = <<[args |-> TimeArgs(result)[1], outcome |-> "raise"],
                               [args |-> TimeArgs(result)[2], outcome |-> second]>>
             /\ pc' = IF second = "ok" THEN "tithi" ELSE "done"
             /\ status' = IF second = "ok" THEN status ELSE 500
    /\ UNCHANGED <<VEDASTRO_AVAILABLE, GSHEET_ID, GOOGLE_SERVICE_ACCOUNT_JSON, req,
                   result, geoCalls, calls, used, attempted, sheetCalls, sheetRows,
                   faults, probe>>

\* (variant: the block has no except clause, its exception reaches line 200)
AfterAttemptUncaught(q, f) ==
    LET i == CHOOSE j \in DOMAIN Quantities : Quantities[j] = q IN
    IF f.key = ErrKey(q) THEN "done"
    ELSE IF i < Len(Quantities) THEN Quantities[i + 1] ELSE "persist"

\* where control goes after the try/except block of quantity q ended as f:
\* always on to the next block, whether the except clause ran or not
AfterAttempt(q, f) ==
    LET i == CHOOSE j \in DOMAIN Quantities : Quantities[j] = q IN
    IF i < Len(Quantities) THEN Quantities[i + 1] ELSE "persist"

\* the run in which the primary name resolves as written and hands back a
\* well-behaved object
IsNominal(r) == Len(r.calls) = 1 /\ r.obj = NominalObject

\* one quantity's try/except block (main.py:139-146 and the six that follow)
Attempt(q) ==
    /\ pc = q
    /\ \E Calc \in (IF faults < MaxFaults THEN StepFacilities(q) ELSE {NominalFacility(q)}) :
       \E r \in Chain(Calc, IF faults < MaxFaults THEN Behaviours ELSE {NominalBehaviour},
                      QuantityTable[q].probes, QuantityTable[q].chain, 1) :
          LET f == Finish(q, r) IN
          /\ result' = [result EXCEPT ![q] = IF f.field = "unset" THEN @ ELSE f.field,
                                      !.raw = SetItem(@, f.key, f.val)]
          /\ calls' = r.calls
          /\ used' = r.used
          /\ faults' = IF IsNominal(r) THEN faults ELSE faults + 1
          /\ pc' = AfterAttempt(q, f)
          /\ status' = IF pc' = "done" THEN 500 ELSE status
    /\ attempted' = attempted \cup {q}
    /\ UNCHANGED <<VEDASTRO_AVAILABLE, GSHEET_ID, GOOGLE_SERVICE_ACCOUNT_JSON, req,
                   geoCalls, timeCalls, sheetCalls, sheetRows, probe>>

Tithi == Attempt("tithi")           \* main.py:139-146
Nakshatra == Attempt("nakshatra")   \* main.py:148-153
Yoga == Attempt("yoga")             \* main.py:155-160
Karan == Attempt("karan")           \* main.py:162-167
RahuKaal == Attempt("rahu_kaal")    \* main.py:170-175
GulikaKaal == Attempt("gulika_kaal") \* main.py:177-182
Abhijit == Attempt("abhijit")       \* main.py:184-189


(***************************************************************************)
(* write_to_sheet (main.py:32-66)                                          *)
(***************************************************************************)
\* the header row (main.py:47)
Header ==
    [kind |-> "header",
     cells |-> <<"date", "city", "tithi", "nakshatra", "yoga", "karan", "rahu_kaal",
                 "gulika_kaal", "abhijit", "raw_json", "updated_at">>]

\* the data row (main.py:49-61)
Row(res) ==
    [kind |-> "data",
     cells |-> <<res.date, res.city, res.tithi, res.nakshatra, res.yoga, res.karan,
                 res.rahu_kaal, res.gulika_kaal, res.abhijit>>,
     raw_json |-> res.raw,
     updated_at |-> "now()"]

\* json.loads accepts the credential document
ParsesAsJson(doc) == doc = "{service account}"

\* the places of write_to_sheet's try block where the environment can fail it
FailPoints == {"none", "import", "keyfile", "authorize", "open_by_key",
               "add_worksheet", "insert_row", "append_row"}

\* (variant: `and` in place of `or` in the configuration test)
NotConfiguredBoth ==
    Falsy(GOOGLE_SERVICE_ACCOUNT_JSON) /\ Falsy(GSHEET_ID)

\* the test of main.py:33
NotConfigured ==
    Falsy(GOOGLE_SERVICE_ACCOUNT_JSON) \/ Falsy(GSHEET_ID)

\* (variant: no except clause, the exception leaves write_to_sheet)
Uncaught(cs, rs) == [ret |-> "raise", calls |-> cs, rows |-> rs]

\* the except clause of write_to_sheet (main.py:64-66) after the backend calls
\* cs were made and the rows rs sent: the error is printed, False returned
Caught(cs, rs) == [ret |-> "False", calls |-> cs, rows |-> rs]

\* write_to_sheet(result) when the step named by fail raises and the
\* worksheet lookup finds (wsFound) or does not find "PanchangCache":
\* the value returned, the backend calls made and the rows sent
WriteToSheet(res, fail, wsFound) ==
    LET opened == <<"authorize", "open_by_key", "worksheet">>
        created == opened \o <<"add_worksheet", "insert_row">>
    IN
    IF NotConfigured THEN [ret |-> "False", calls |-> <<>>, rows |-> <<>>]
    ELSE IF fail = "import" THEN Caught(<<>>, <<>>)
    ELSE IF ~ParsesAsJson(GOOGLE_SERVICE_ACCOUNT_JSON) THEN Caught(<<>>, <<>>)
    ELSE IF fail = "keyfile" THEN Caught(<<>>, <<>>)
    ELSE IF fail = "authorize" THEN Caught(<<"authorize">>, <<>>)
    ELSE IF fail = "open_by_key" THEN Caught(<<"authorize", "open_by_key">>, <<>>)
    ELSE IF wsFound
    THEN IF fail = "append_row"
         THEN Caught(opened \o <<"append_row">>, <<>>)
         ELSE [ret |-> "True", calls |-> opened \o <<"append_row">>, rows |-> <<Row(res)>>]
    ELSE IF fail = "add_worksheet" THEN Caught(opened \o <<"add_worksheet">>, <<>>)
    ELSE IF fail = "insert_row" THEN Caught(created, <<>>)
    ELSE IF fail = "append_row" THEN Caught(created \o <<"append_row">>, <<Header>>)
    ELSE [ret |-> "True", calls |-> created \o <<"append_row">>, rows |-> <<Header, Row(res)>>]

\* main.py:191-198
Persist ==
    /\ pc = "persist"
    /\ \E fail \in FailPoints, wsFound \in BOOLEAN :
        LET w == WriteToSheet(result, fail, wsFound) IN
        /\ result' = [result EXCEPT !.raw =
                        IF w.ret = "raise"
                        THEN SetItem(@, "sheet_error", "write_to_sheet raised")
                        ELSE SetItem(@, "sheet_written", w.ret)]
        /\ sheetCalls' = w.calls
        /\ sheetRows' = w.rows
    /\ status' = 200
    /\ pc' = "done"
    /\ UNCHANGED <<VEDASTRO_AVAILABLE, GSHEET_ID, GOOGLE_SERVICE_ACCOUNT_JSON, req,
                   geoCalls, timeCalls, calls, used, attempted, faults, probe>>

(***************************************************************************)
(* One request from construction of the process to the response.           *)
(***************************************************************************)
\* the environments considered for GSHEET_ID and GOOGLE_SERVICE_ACCOUNT_JSON
\* (main.py:20-21): either, both or none unset, and a document that is no JSON
Configs ==
    {<<None, None>>, <<"sheet-id", None>>, <<None, "{service account}">>,
     <<"sheet-id", "{not json">>, <<"sheet-id", "{service account}">>}

Init ==
    /\ VEDASTRO_AVAILABLE \in BOOLEAN
    /\ \E c \in Configs :
        /\ GSHEET_ID = c[1]
        /\ GOOGLE_SERVICE_ACCOUNT_JSON = c[2]
    /\ pc = "idle"
    /\ req = None
    /\ result = <<>>
    /\ status = 0
    /\ geoCalls = <<>>
    /\ timeCalls = <<>>
    /\ calls = <<>>
    /\ used = 0
    /\ attempted = {}
    /\ sheetCalls = <<>>
    /\ sheetRows = <<>>
    /\ faults = 0
    /\ probe = [phase |-> "off"]

Next ==
    \/ BuildShell
    \/ FacilityCheck
    \/ ConstructGeo
    \/ ConstructTime
    \/ Tithi
    \/ Nakshatra
    \/ Yoga
    \/ Karan
    \/ RahuKaal
    \/ GulikaKaal
    \/ Abhijit
    \/ Persist

Spec == Init /\ [][Next]_vars


(***************************************************************************)
(* safe_call on its own: one name, one facility namespace, one call.       *)
(***************************************************************************)
\* names handed to safe_call: names the handler probes, and names that
\* coincide with their own lower-case, upper-case or capitalized spelling
ProbeNames ==
    {N_TithiAtTime, N_AllTithiData, N_GetRahuKaal, N_RahuKaal, N_Gulika,
     <<"r","a","h","u">>, <<"Y","O","G","A">>, <<"K","a","r","a","n">>}

\* every spelling safe_call may look up for a name
Spellings(name) ==
    {name} \cup {Alternatives(name)[j] : j \in DOMAIN Alternatives(name)}

\* every namespace over the spellings of a name: each is absent, a plain
\* attribute or a callable
Namespaces(name) ==
    {[n \in {m \in Spellings(name) : g[m] # "absent"} |-> g[n]] :
        g \in [Spellings(name) -> {"absent", "data", "callable"}]}

ProbeInit ==
    /\ VEDASTRO_AVAILABLE \in BOOLEAN
    /\ GSHEET_ID = None
    /\ GOOGLE_SERVICE_ACCOUNT_JSON = None
    /\ pc = "off"
    /\ req = None
    /\ result = <<>>
    /\ status = 0
    /\ geoCalls = <<>>
    /\ timeCalls = <<>>
    /\ calls = <<>>
    /\ used = 0
    /\ attempted = {}
    /\ sheetCalls = <<>>
    /\ sheetRows = <<>>
    /\ faults = 0
    /\ \E name \in ProbeNames, args \in {<<>>, <<"t">>} :
       \E Calc \in Namespaces(name) :
          probe = [phase |-> "ready", name |-> name, args |-> args, Calculate |-> Calc,
                   invoked |-> <<>>,
                   outcome |-> [kind |-> "pending", by |-> <<>>, args |-> <<>>]]

\* safe_call(name, *args) (main.py:69-80): the callables invoked with their
\* arguments, and how the call ends: RuntimeError ("unavailable"), None
\* ("none"), the invoked callable's result or its exception
ProbeCall ==
    /\ probe.phase = "ready"
    /\ LET r == SafeCall(VEDASTRO_AVAILABLE, probe.Calculate, probe.name) IN
       IF r.kind \in {"unavailable", "none"}
       THEN probe' = [probe EXCEPT !.phase = "done",
                                   !.outcome = [kind |-> r.kind, by |-> <<>>, args |-> <<>>]]
       ELSE \E how \in {"result", "exception"} :
            probe' = [probe EXCEPT !.phase = "done",
                                   !.invoked = <<[fn |-> r.fn, args |-> probe.args]>>,
                                   !.outcome = [kind |-> how, by |-> r.fn, args |-> probe.args]]
    /\ UNCHANGED <<VEDASTRO_AVAILABLE, GSHEET_ID, GOOGLE_SERVICE_ACCOUNT_JSON, pc, req,
                   result, status, geoCalls, timeCalls, calls, used, attempted,
                   sheetCalls, sheetRows, faults>>

ProbeNext == ProbeCall

ProbeSpec == ProbeInit /\ [][ProbeNext]_vars


(***************************************************************************)
(* Properties                                                              *)
(***************************************************************************)
\* the result shell exists
Running == pc \notin {"idle", "off"}

\* the handler got past the construction of the location handle
PastGeo == pc \notin {"idle", "off", "facility", "geo"} /\ VEDASTRO_AVAILABLE

\* d has the same entry, or the same lack of one, under key k as e
SameEntry(d, e, k) ==
    /\ k \in DOMAIN d <=> k \in DOMAIN e
    /\ k \in DOMAIN d => d[k] = e[k]

\* a constructor's last attempt raised
ConstructionFailed(log) == log # <<>> /\ Last(log).outcome = "raise"

\* the request carried no query parameter
NoQueryParams == \A k \in {"date", "city", "lat", "lon"} : req[k] = NoParam

\* C1: while a quantity's block runs, whether it raises or not, the field
\* and both raw entries of every other quantity stay as they are, control
\* goes on to the next quantity's block (to persistence after the seventh),
\* and persistence is reached only with all seven quantities attempted.
C1_QuantitiesIndependent ==
    [][\A i \in DOMAIN Quantities :
         pc = Quantities[i] =>
            /\ pc' = IF i = 7 THEN "persist" ELSE Quantities[i + 1]
            /\ Quantities[i] \in attempted'
            /\ pc' = "persist" => attempted' = QuantitySet
            /\ \A y \in QuantitySet \ {Quantities[i]} :
                  /\ result'[y] = result[y]
                  /\ SameEntry(result'.raw, result.raw, ObjKey(y))
                  /\ SameEntry(result'.raw, result.raw, ErrKey(y))]_vars

\* C1 witness: the first quantity's computation raised, and the last one
\* still has its field and its raw entry, with all seven attempted
C1_Witness ==
    /\ pc = "done" /\ status = 200 /\ VEDASTRO_AVAILABLE
    /\ "tithi_error" \in DOMAIN result.raw
    /\ result.abhijit = "str(obj)"
    /\ "abhijit_obj" \in DOMAIN result.raw
    /\ attempted = QuantitySet

\* C2: with the facility unavailable the handler only ever builds the shell
\* and returns it: status 200, the seven fields None, raw holding exactly the
\* "error" entry, no GeoLocation or Time constructed, no safe_call made, no
\* quantity attempted, write_to_sheet not called.
C2_UnavailableShortCircuit ==
    ~VEDASTRO_AVAILABLE /\ pc \notin {"idle", "off", "facility"} =>
        /\ pc = "done"
        /\ status = 200
        /\ \A q \in QuantitySet : result[q] = None
        /\ DOMAIN result.raw = {"error"}
        /\ geoCalls = <<>> /\ timeCalls = <<>>
        /\ calls = <<>> /\ attempted = {}
        /\ sheetCalls = <<>> /\ sheetRows = <<>>

\* C2 witness: a request answered while the facility is unavailable
C2_Witness ==
    ~VEDASTRO_AVAILABLE /\ pc = "done" /\ status = 200 /\ "error" \in DOMAIN result.raw

\* C3 (as claimed): whenever a quantity's error entry is in raw, its field is
\* None and it has no "_obj" entry.
C3_ErrorLeavesFieldNull ==
    Running =>
        \A q \in QuantitySet :
            ErrKey(q) \in DOMAIN result.raw =>
                /\ result[q] = None
                /\ ObjKey(q) \notin DOMAIN result.raw

\* C4: with the facility available safe_call invokes exactly the first of
\* name, lower, upper, capitalized, "All"+name, "Get"+name that is a callable
\* attribute, once, with the supplied arguments, and ends with that callable's
\* result or exception; with no such candidate it invokes nothing and
\* returns None.
C4_FirstCallableCandidate ==
    probe.phase = "done" /\ VEDASTRO_AVAILABLE =>
        LET n == probe.name
            cands == <<n, Lower(n), Upper(n), Capitalize(n),
                       <<"A","l","l">> \o n, <<"G","e","t">> \o n>>
            hits == {i \in 1..6 : GetAttr(probe.Calculate, cands[i]) = "callable"}
        IN  IF hits = {}
            THEN probe.invoked = <<>> /\ probe.outcome.kind = "none"
            ELSE LET first == CHOOSE i \in hits : \A j \in hits : i <= j IN
                 /\ probe.invoked = <<[fn |-> cands[first], args |-> probe.args]>>
                 /\ probe.outcome.kind \in {"result", "exception"}
                 /\ probe.outcome.by = cands[first]
                 /\ probe.outcome.args = probe.args

\* C4 witness: only the capitalized spelling is callable (the verbatim name
\* is a plain attribute) and it is the one callable invoked
C4_Witness ==
    /\ probe.phase = "done" /\ VEDASTRO_AVAILABLE
    /\ probe.name = N_TithiAtTime
    /\ probe.Calculate = (N_TithiAtTime :> "data") @@ (Capitalize(N_TithiAtTime) :> "callable")
    /\ probe.invoked = <<[fn |-> <<"T","i","t","h","i","a","t","t","i","m","e">>, args |-> <<"t">>]>>
    /\ probe.outcome.kind = "result"

\* C5: with GSHEET_ID or GOOGLE_SERVICE_ACCOUNT_JSON unset no call to the
\* spreadsheet backend is ever made and no row sent, and a request that
\* went through the persistence step has sheet_written = False and no
\* sheet_error in raw.
C5_AbsentConfigNoBackendCall ==
    GSHEET_ID = None \/ GOOGLE_SERVICE_ACCOUNT_JSON = None =>
        /\ sheetCalls = <<>> /\ sheetRows = <<>>
        /\ pc = "done" /\ status = 200 /\ VEDASTRO_AVAILABLE =>
              /\ "sheet_written" \in DOMAIN result.raw
              /\ result.raw["sheet_written"] = "False"
              /\ "sheet_error" \notin DOMAIN result.raw

\* C5 witness: a request that went through persistence with credentials set
\* and no spreadsheet identifier
C5_Witness ==
    /\ GSHEET_ID = None /\ GOOGLE_SERVICE_ACCOUNT_JSON = "{service account}"
    /\ pc = "done" /\ status = 200 /\ VEDASTRO_AVAILABLE
    /\ "sheet_written" \in DOMAIN result.raw

\* C6: with persistence configured the persistence step always ends the
\* request with status 200 and a sheet_written entry, which is False unless
\* the data row was appended; it leaves the seven fields and every other raw
\* entry as they were, whatever write_to_sheet met.
C6_PersistenceFailureIsolated ==
    [][pc = "persist" /\ GSHEET_ID = "sheet-id" /\ GOOGLE_SERVICE_ACCOUNT_JSON # None =>
         /\ pc' = "done" /\ status' = 200
         /\ DOMAIN result'.raw = DOMAIN result.raw \cup {"sheet_written"}
         /\ (sheetRows' = <<>> \/ Last(sheetRows').kind # "data")
               => result'.raw["sheet_written"] = "False"
         /\ \A q \in QuantitySet : result'[q] = result[q]
         /\ \A k \in DOMAIN result.raw : result'.raw[k] = result.raw[k]]_vars

\* C6 witness: the backend was called, the write failed, the response is
\* the 200 one with sheet_written False next to a computed quantity
C6_Witness ==
    /\ pc = "done" /\ status = 200 /\ VEDASTRO_AVAILABLE
    /\ GOOGLE_SERVICE_ACCOUNT_JSON = "{service account}"
    /\ Len(sheetCalls) >= 3 /\ sheetRows = <<>>
    /\ result.raw["sheet_written"] = "False"
    /\ result.tithi = "obj.name" /\ "tithi_obj" \in DOMAIN result.raw


C8_NoParamsAlways200 ==
    pc = "done" /\ NoQueryParams =>
        /\ result.date = Today
        /\ result.city = "Jaipur"
        /\ status = 200

\* C8 (amended): a request without query parameters ends with date the
\* current day and city "Jaipur"; its status is 200 with the facility
\* unavailable, and with it available exactly when neither GeoLocation nor
\* Time raised at its second attempt, else 500.
C8_NoParamsDefaults ==
    pc = "done" /\ NoQueryParams =>
        /\ result.date = Today
        /\ result.city = "Jaipur"
        /\ status \in {200, 500}
        /\ status = 500 <=>
              VEDASTRO_AVAILABLE /\ (ConstructionFailed(geoCalls) \/ ConstructionFailed(timeCalls))

\* C8 witness: no query parameters, facility available, GeoLocation raised
\* once and was built at the second attempt, the answer is the 200 one
C8_Witness ==
    /\ pc = "done" /\ NoQueryParams /\ VEDASTRO_AVAILABLE
    /\ Len(geoCalls) = 2 /\ status = 200
    /\ result.date = Today /\ result.city = "Jaipur"

\* C9 (as claimed): a quantity's block makes at most two safe_call calls,
\* the second only after the primary returned None, and a primary result
\* other than None is the object used, with no second call.
C9_AtMostTwoCalls ==
    calls # <<>> =>
        /\ Len(calls) <= 2
        /\ Len(calls) = 2 => calls[1].ret = "None"
        /\ calls[1].ret \notin {"None", "raise"} => Len(calls) = 1 /\ used = 1

\* the quantity whose block made the logged calls
LoggedQuantity ==
    CHOOSE q \in QuantitySet : QuantityTable[q].probes[1].name = calls[1].name

\* C9 (amended): a quantity's block calls safe_call with its names in order,
\* at most twice, or three times for rahu_kaal and gulika_kaal (whose third
\* call passes no argument); a call after the first is made only when the
\* one before returned None (tithi) or a falsy value (the other six); a
\* truthy primary result is the object used and no further call is made.
C9_CallChain ==
    calls # <<>> =>
        LET q == LoggedQuantity
            probes == QuantityTable[q].probes
        IN  /\ Len(calls) <= (IF q \in {"rahu_kaal", "gulika_kaal"} THEN 3 ELSE 2)
            /\ \A i \in DOMAIN calls :
                  /\ calls[i].name = probes[i].name
                  /\ calls[i].nargs = (IF i = 3 THEN 0 ELSE 1)
                  /\ i > 1 => calls[i - 1].ret \in
                                 (IF q = "tithi" THEN {"None"} ELSE {"None", "falsy"})
            /\ calls[1].ret = "truthy" => Len(calls) = 1 /\ used = 1

\* C9 witness: the rahu_kaal block made three calls, the second after a
\* falsy value that is not None, and used the third result
C9_Witness ==
    /\ Len(calls) = 3
    /\ calls[1].name = N_RahuKaalAtDate
    /\ calls[1].ret = "falsy"
    /\ calls[3].name = N_RahuKaal
    /\ used = 3

\* C10: with the facility available GeoLocation is called with (city,
\* longitude, latitude) and, only after that raised, once more with (city,
\* latitude, longitude); Time is called with the ISO date and, only after
\* that raised, once more with "00:00 <date> +05:30"; when a second attempt
\* raises the request ends with status 500, no quantity attempted, no
\* safe_call made and nothing sent to the spreadsheet; otherwise the
\* handler goes on.
C10_ConstructionFallbacks ==
    PastGeo =>
        /\ Len(geoCalls) \in {1, 2}
        /\ geoCalls[1].args = <<result.city, result.longitude, result.latitude>>
        /\ Len(geoCalls) = 2 =>
              /\ geoCalls[1].outcome = "raise"
              /\ geoCalls[2].args = <<result.city, result.latitude, result.longitude>>
        /\ Len(geoCalls) = 1 => geoCalls[1].outcome = "ok"
        /\ pc # "time" =>
              IF ConstructionFailed(geoCalls) THEN timeCalls = <<>>
              ELSE /\ Len(timeCalls) \in {1, 2}
                   /\ timeCalls[1].args[2] = <<result.date>>
                   /\ Len(timeCalls) = 2 =>
                         /\ timeCalls[1].outcome = "raise"
                         /\ timeCalls[2].args[2] = <<"00:00 ", result.date, " +05:30">>
                   /\ Len(timeCalls) = 1 => timeCalls[1].outcome = "ok"
        /\ IF ConstructionFailed(geoCalls) \/ ConstructionFailed(timeCalls)
           THEN /\ pc = "done" /\ status = 500
                /\ attempted = {} /\ calls = <<>>
                /\ sheetCalls = <<>> /\ sheetRows = <<>>
                /\ result.raw = <<>>
           ELSE status # 500

\* C10 witness: both Time attempts raised after GeoLocation was built at its
\* second attempt, and the request ended with status 500
C10_Witness ==
    /\ pc = "done" /\ status = 500
    /\ Len(geoCalls) = 2 /\ geoCalls[2].outcome = "ok"
    /\ Len(timeCalls) = 2 /\ timeCalls[2].outcome = "raise"

====
